---- MODULE Spec2Model ----
(***************************************************************************)
(* The SABnzbd watchdog of sab_watchdog.py: the poll loop with its five    *)
(* debounce counters and the remediation calls it issues (resume, delete   *)
(* job, reset queue, docker restart).                                      *)
(*                                                                         *)
(* Sizes are floats in GB in the program; here a size is an integer number *)
(* of KB (1 GB = 2^20 KB), so that "/ 1024" and "/ (1024 * 1024)" of the   *)
(* size parser are exact.                                                  *)
(***************************************************************************)
EXTENDS Integers, Sequences, FiniteSets, TLC

\* ---------------------------------------------------------------- bounds
\* MAX_ZERO_COUNT, read from the environment, is drawn from 1..MaxZeroCount.
MaxZeroCount == 2
\* Longest queue a fetched snapshot carries.
MaxJobs == 2
\* A counter the program lets grow without bound stops the model once it is
\* CountMargin past the threshold it is compared with.
CountMargin == 1
\* How far apart in post_processing_active_counter two compared runs start.
MaxTwinOffset == 5

\* ------------------------------------------------------------- constants
\* One GB in the model's unit (KB).
GB == 1048576

\* The defaults of the settings the model keeps fixed.
MAX_PAUSED_COUNT_FOR_UNPAUSE == 5
MAX_DISK_FULL_COUNT == 2
RESTART_ON_DISK_FULL_FAIL_COUNT == 1
DISK_FREE_THRESHOLD_GB == 5 * GB
SIZE_CHECK_BUFFER_GB == 1 * GB

POST_PROCESSING_STATES ==
    { "Verifying", "Verifying:", "Extracting", "Extracting:",
      "Moving", "Moving:", "Renaming", "Renaming:",
      "Repairing", "Repairing:", "Grabbing", "Grabbing:",
      "Copying", "Copying:", "Direct Unpack", "Direct Unpack:" }

\* ----------------------------------------------------------- size parser
\* A size string is its magnitude and its suffix: [mag |-> 512, unit |-> " MB"]
\* is "512 MB"; unit "" is a bare number; unit "?" is text float() rejects.
SizeStr(m, u) == [mag |-> m, unit |-> u]

Absent == SizeStr(0, "absent")
DefaultSize == SizeStr(0, " GB")

parse_sab_size_string(size_str) ==
    IF size_str.unit = " GB" THEN size_str.mag * GB
    ELSE IF size_str.unit = " MB" THEN (size_str.mag * GB) \div 1024
    ELSE IF size_str.unit = " KB" THEN (size_str.mag * GB) \div (1024 * 1024)
    ELSE IF size_str.unit = "" THEN size_str.mag * GB
    ELSE 0

\* job.get(key, default)
JobGet(value, default) == IF value = Absent THEN default ELSE value

\* ------------------------------------------------------------- the inputs
\* The jobs a response may list (status, "size", "sizeleft").
JobChoices ==
    { [status |-> "Downloading", size |-> SizeStr(10, " GB"), sizeleft |-> SizeStr(512, " MB")],
      [status |-> "Downloading", size |-> SizeStr(3, " GB"),  sizeleft |-> Absent],
      [status |-> "Queued",      size |-> SizeStr(3, " GB"),  sizeleft |-> SizeStr(3, " GB")],
      [status |-> "Completed",   size |-> SizeStr(10, " GB"), sizeleft |-> SizeStr(0, " GB")],
      [status |-> "Extracting:", size |-> SizeStr(10, " GB"), sizeleft |-> SizeStr(0, " GB")] }

SlotLists == UNION { [1..n -> JobChoices] : n \in 0..MaxJobs }

\* queue["diskspace1"], a bare number of GB.
DiskStrings == { SizeStr(2, ""), SizeStr(8, "") }

\* A well-formed API response. The service reports in "noofslots" the number
\* of entries of "slots"; nzo_id is the job's place in the queue.
Responses ==
    [ kbpersec : {0, 1},
      status : {"Downloading", "Paused", "Idle"},
      diskspace1 : DiskStrings, slots : SlotLists ]

noofslots(resp) == Len(resp.slots)

WithIds(slots) ==
    [i \in 1..Len(slots) |->
        [nzo_id |-> i, status |-> slots[i].status,
         size |-> slots[i].size, sizeleft |-> slots[i].sizeleft]]

\* ------------------------------------------------------------- snapshots
\* A sentinel that reports ample free space instead of none.
ErrorSnapshotRoomy ==
    [speed |-> -1, slots |-> 0, status |-> "Error", pp |-> FALSE,
     disk |-> 8 * GB, items |-> <<>>]

ErrorSnapshot ==
    [speed |-> -1, slots |-> 0, status |-> "Error", pp |-> FALSE,
     disk |-> 0, items |-> <<>>]

\* get_queue_info on a response that arrived and parsed.
QueueInfo(resp) ==
    [speed |-> resp.kbpersec * 1024,
     slots |-> noofslots(resp),
     status |-> resp.status,
     pp |-> \E i \in 1..Len(resp.slots) : resp.slots[i].status \in POST_PROCESSING_STATES,
     disk |-> parse_sab_size_string(resp.diskspace1),
     items |-> WithIds(resp.slots)]

Snapshots == { QueueInfo(r) : r \in Responses } \cup { ErrorSnapshot }

\* The values the loop's locals hold between two cycles are never read again.
NoSnapshot ==
    [speed |-> 0, slots |-> 0, status |-> "", pp |-> FALSE, disk |-> 0, items |-> <<>>]

\* ----------------------------------------------------------------- state
VARIABLES
    pc,                              \* where the loop body stands
    MAX_ZERO_COUNT,                  \* configuration, read once at start
    zero_speed_hang_counter,         \* the five counters
    sabnzbd_paused_counter,
    post_processing_active_counter,
    disk_full_counter,
    disk_full_restart_counter,
    speed,                           \* the snapshot of this cycle
    active_download_slots,
    overall_status,
    is_post_processing_active,
    disk_space_free_gb,
    queue_items,
    actions,                         \* calls issued in this cycle, in order
    start,                           \* the counters when this cycle began
    prev,                            \* what the previous cycle did (kept up to step C)
    hangRun,                         \* length of the current hang scenario
    errRun,                          \* length of the current fetch-failure run
    runs,                            \* consecutive qualifying cycles, per condition
    twin                             \* a second run, fed the same snapshots and outcomes

config == << MAX_ZERO_COUNT >>
counters == << zero_speed_hang_counter, sabnzbd_paused_counter,
               post_processing_active_counter, disk_full_counter,
               disk_full_restart_counter >>
snapshot == << speed, active_download_slots, overall_status,
               is_post_processing_active, disk_space_free_gb, queue_items >>
history == << start, prev, hangRun, errRun, runs >>
vars == << pc, config, counters, snapshot, actions, history, twin >>

\* ------------------------------------------------------- helper operators
Counters(h, p, pp, d, r) == [hang |-> h, paused |-> p, pproc |-> pp, disk |-> d, restart |-> r]

Now ==
    Counters(zero_speed_hang_counter, sabnzbd_paused_counter,
             post_processing_active_counter, disk_full_counter,
             disk_full_restart_counter)

AllZero == Counters(0, 0, 0, 0, 0)

SetCounters(c) ==
    /\ zero_speed_hang_counter' = c.hang
    /\ sabnzbd_paused_counter' = c.paused
    /\ post_processing_active_counter' = c.pproc
    /\ disk_full_counter' = c.disk
    /\ disk_full_restart_counter' = c.restart

\* One call to the service or to docker: arg is the nzo_id of a DeleteJob and
\* the free space a ReFetch reported; ok is what the call returned.
Act(type, step, arg, ok) == [type |-> type, step |-> step, arg |-> arg, ok |-> ok]

Issued(type) == { i \in 1..Len(actions) : actions[i].type = type }

NoJob == [nzo_id |-> 0, status |-> "", size |-> Absent, sizeleft |-> Absent]

\* A job's data without its place in the queue.
Data(job) == [job EXCEPT !.nzo_id = 0]

\* failedJob is the data of the job whose deletion failed, NoJob when none did.
NoPrev == [resumeFailed |-> FALSE, failedJob |-> NoJob,
           resolved |-> FALSE, restartB |-> FALSE, restartC |-> FALSE]

\* ------------------------------------------------------ step A: unpausing
UnpauseDue(cnt) == cnt >= MAX_PAUSED_COUNT_FOR_UNPAUSE

\* Post-processing is waited for at most one cycle.
BusyPostProcessingOnce(pp, cnt) == pp /\ cnt < 1

\* The test is dropped: a paused service is always a candidate for a resume.
BusyPostProcessingIgnored(pp, cnt) == FALSE

\* Line 166: paused because of post-processing; the counter is not consulted.
BusyPostProcessing(pp, cnt) == pp

\* A resume that failed clears the counter as well.
PausedAfterResumeAlways(cnt, resumed) == 0

PausedAfterResume(cnt, resumed) == IF resumed THEN 0 ELSE cnt

\* -------------------------------------------------- step B: disk pressure
DiskLow(free) == free < DISK_FREE_THRESHOLD_GB

DeletionDue(cnt) == cnt >= MAX_DISK_FULL_COUNT

\* The escalation waits for one failed re-check more.
EscalationDueLate(cnt) == cnt > RESTART_ON_DISK_FULL_FAIL_COUNT

EscalationDue(cnt) == cnt >= RESTART_ON_DISK_FULL_FAIL_COUNT

\* Completed jobs are not skipped.
SkippedUnlessCompleted(job) ==
    job.status = "Failed" \/ job.status \in POST_PROCESSING_STATES

Skipped(job) ==
    job.status \in {"Completed", "Failed"} \/ job.status \in POST_PROCESSING_STATES

job_current_size_check(job) ==
    IF job.status = "Downloading"
    THEN parse_sab_size_string(JobGet(job.sizeleft, DefaultSize))
    ELSE parse_sab_size_string(JobGet(job.size, DefaultSize))

Larger(size, max_potential_size_gb) == size > max_potential_size_gb

RECURSIVE SelectLoop(_, _, _, _)
SelectLoop(items, i, job_to_delete, max_potential_size_gb) ==
    IF i > Len(items) THEN job_to_delete
    ELSE IF Skipped(items[i])
         THEN SelectLoop(items, i + 1, job_to_delete, max_potential_size_gb)
    ELSE IF Larger(job_current_size_check(items[i]), max_potential_size_gb)
         THEN SelectLoop(items, i + 1, items[i], job_current_size_check(items[i]))
    ELSE SelectLoop(items, i + 1, job_to_delete, max_potential_size_gb)

JobToDelete(items) == SelectLoop(items, 1, NoJob, 0)

\* What the re-fetch after a deletion can report: the free space, and whether
\* the fetch went through (the error snapshot reports 0.0 GB free).
ReFetched == { [disk |-> s.disk, ok |-> s # ErrorSnapshot] : s \in Snapshots }

\* ----------------------------------------------------------- step C: hang
\* The looser policy: any status but Paused, and no positive throughput.
HangDetectedLoose(status, spd, pp) == status # "Paused" /\ spd <= 0 /\ ~pp

\* The status is not looked at: a paused service that moves nothing hangs.
HangDetectedAnyStatus(status, spd, pp) == spd = 0 /\ ~pp

HangDetected(status, spd, pp) == status = "Downloading" /\ spd = 0 /\ ~pp

\* Off by one: the restart comes a cycle late.
RestartDueLate(cnt) == cnt > MAX_ZERO_COUNT

RestartDue(cnt) == cnt >= MAX_ZERO_COUNT

\* What each debounce counter stands for in a snapshot: a pause that is not
\* due to post-processing (lines 165-166), free space below the threshold
\* (line 184), a true hang. The true hang has an active slot; line 262 tests
\* the rest of it and leaves active_download_slots out.
Qualifying(s) ==
    [paused |-> s.status = "Paused" /\ ~s.pp,
     low    |-> s.disk < DISK_FREE_THRESHOLD_GB,
     hang   |-> s.slots > 0 /\ s.speed = 0 /\ s.status # "Paused" /\ ~s.pp]

NoRuns == [paused |-> 0, low |-> 0, hang |-> 0]

\* The length of a run of qualifying cycles, counted up to the debounce count.
RunAfter(run, qualifies, most) ==
    IF ~qualifies THEN 0 ELSE IF run < most THEN run + 1 ELSE run

\* ------------------------------------------------------------ the program
\* The second run starts with post_processing_active_counter at offset.
TwinStart(offset) == [c |-> [AllZero EXCEPT !.pproc = offset], acts |-> << >>]

Start(offsets) ==
    /\ pc = "fetch"
    /\ MAX_ZERO_COUNT \in 1..MaxZeroCount
    /\ zero_speed_hang_counter = 0
    /\ sabnzbd_paused_counter = 0
    /\ post_processing_active_counter = 0
    /\ disk_full_counter = 0
    /\ disk_full_restart_counter = 0
    /\ speed = NoSnapshot.speed
    /\ active_download_slots = NoSnapshot.slots
    /\ overall_status = NoSnapshot.status
    /\ is_post_processing_active = NoSnapshot.pp
    /\ disk_space_free_gb = NoSnapshot.disk
    /\ queue_items = NoSnapshot.items
    /\ actions = << >>
    /\ start = AllZero
    /\ prev = NoPrev
    /\ hangRun = 0
    /\ errRun = 0
    /\ runs = NoRuns
    /\ twin \in {TwinStart(offset) : offset \in offsets}

\* Lines 34-38: the program starts with every counter at 0, and so does the
\* second run.
Init == Start({0})

\* The second run starts with another value of post_processing_active_counter.
TwinInit == Start(1..MaxTwinOffset)

SetSnapshot(s) ==
    /\ speed' = s.speed
    /\ active_download_slots' = s.slots
    /\ overall_status' = s.status
    /\ is_post_processing_active' = s.pp
    /\ disk_space_free_gb' = s.disk
    /\ queue_items' = s.items

\* The snapshot of the hang scenario: one active slot, no throughput, status
\* Downloading, no post-processing, disk at or above the threshold.
HangScenario(s) ==
    /\ s.slots = 1 /\ s.speed = 0 /\ s.status = "Downloading" /\ ~s.pp
    /\ ~DiskLow(s.disk)

\* Line 160: the fetch that opens a cycle.
Fetch ==
    /\ pc = "fetch"
    /\ sabnzbd_paused_counter < MAX_PAUSED_COUNT_FOR_UNPAUSE + CountMargin
    /\ post_processing_active_counter < 1 + CountMargin
    /\ disk_full_counter < MAX_DISK_FULL_COUNT + CountMargin
    /\ \E s \in Snapshots :
         /\ SetSnapshot(s)
         /\ hangRun' = IF HangScenario(s) /\ hangRun \in 1..(MAX_ZERO_COUNT - 1)
                       THEN hangRun + 1
                       ELSE IF HangScenario(s) /\ Now = AllZero THEN 1 ELSE 0
         /\ errRun' = IF s = ErrorSnapshot /\ errRun >= 1 THEN errRun + 1
                      ELSE IF s = ErrorSnapshot /\ Now = AllZero THEN 1 ELSE 0
         /\ runs' = [paused |-> RunAfter(runs.paused, Qualifying(s).paused,
                                         MAX_PAUSED_COUNT_FOR_UNPAUSE),
                     low    |-> RunAfter(runs.low, Qualifying(s).low,
                                         MAX_DISK_FULL_COUNT),
                     hang   |-> RunAfter(runs.hang, Qualifying(s).hang,
                                         MAX_ZERO_COUNT)]
    /\ actions' = << >>
    /\ twin' = [twin EXCEPT !.acts = << >>]
    /\ start' = Now
    /\ pc' = "A"
    /\ UNCHANGED << config, counters, prev >>

\* Lines 165-181, as a function of the counters and of what resume_sabnzbd()
\* returns when it is called.
StepAResult(c, resumed) ==
    IF overall_status = "Paused"
    THEN IF BusyPostProcessing(is_post_processing_active, c.pproc)
         THEN [c |-> [c EXCEPT !.pproc = @ + 1, !.paused = 0], acts |-> << >>]
         ELSE IF UnpauseDue(c.paused + 1)
              THEN [c |-> [c EXCEPT !.paused = PausedAfterResume(@ + 1, resumed),
                                    !.pproc = 0],
                    acts |-> << Act("Resume", "A", 0, resumed) >>]
              ELSE [c |-> [c EXCEPT !.paused = @ + 1, !.pproc = 0], acts |-> << >>]
    ELSE [c |-> [c EXCEPT !.paused = 0, !.pproc = 0], acts |-> << >>]

\* One step of the loop body in both runs: the counters and the calls of each.
Step(own, other) ==
    /\ SetCounters(own.c)
    /\ actions' = actions \o own.acts
    /\ twin' = [c |-> other.c, acts |-> twin.acts \o other.acts]

\* The outcomes of a call: both when a run makes the call, none to choose
\* from when neither does.
Outcomes(called) == IF called THEN BOOLEAN ELSE {FALSE}

StepA ==
    /\ pc = "A"
    /\ \E resumed \in Outcomes(\/ StepAResult(Now, TRUE).acts # << >>
                                \/ StepAResult(twin.c, TRUE).acts # << >>) :
          Step(StepAResult(Now, resumed), StepAResult(twin.c, resumed))
    /\ pc' = "B"
    /\ UNCHANGED << config, snapshot, history >>

\* The container is restarted without the queue reset before it.
AfterDeletionNoReset(c, again, reset_ok) ==
    IF DiskLow(again.disk)
    THEN [c |-> AllZero,
          acts |-> << Act("ReFetch", "B", again.disk, again.ok),
                      Act("RestartContainer", "B", 0, TRUE) >>]
    ELSE [c |-> [c EXCEPT !.disk = 0, !.paused = 0, !.pproc = 0, !.restart = 0],
          acts |-> << Act("ReFetch", "B", again.disk, again.ok) >>]

\* The escalation restart leaves the hang counter as it was.
AfterDeletionKeepsHang(c, again, reset_ok) ==
    IF DiskLow(again.disk)
    THEN [c |-> [AllZero EXCEPT !.hang = c.hang],
          acts |-> << Act("ReFetch", "B", again.disk, again.ok),
                      Act("ResetQueue", "B", 0, reset_ok),
                      Act("RestartContainer", "B", 0, TRUE) >>]
    ELSE [c |-> [c EXCEPT !.disk = 0, !.paused = 0, !.pproc = 0, !.restart = 0],
          acts |-> << Act("ReFetch", "B", again.disk, again.ok) >>]

\* Lines 222-249: what follows a deletion that went through. c holds the
\* counters with disk_full_counter already incremented.
AfterDeletion(c, again, reset_ok) ==
    IF DiskLow(again.disk)
    THEN IF EscalationDue(c.restart + 1)
         THEN [c |-> AllZero,
               acts |-> << Act("ReFetch", "B", again.disk, again.ok),
                           Act("ResetQueue", "B", 0, reset_ok),
                           Act("RestartContainer", "B", 0, TRUE) >>]
         ELSE [c |-> [c EXCEPT !.restart = @ + 1],
               acts |-> << Act("ReFetch", "B", again.disk, again.ok) >>]
    ELSE [c |-> [c EXCEPT !.disk = 0, !.paused = 0, !.pproc = 0, !.restart = 0],
          acts |-> << Act("ReFetch", "B", again.disk, again.ok) >>]

\* A deletion that failed starts the debounce over.
AfterFailedDeletionReset(c) == [c EXCEPT !.disk = 0]

\* Lines 222 and 251: a deletion that failed changes no counter.
AfterFailedDeletion(c) == c

\* Lines 214-220: both branches of the size comparison issue the same call.
DeleteCall(job, deletion_successful) ==
    IF parse_sab_size_string(JobGet(job.size, DefaultSize))
           > disk_space_free_gb + SIZE_CHECK_BUFFER_GB
    THEN Act("DeleteJob", "B", job.nzo_id, deletion_successful)
    ELSE Act("DeleteJob", "B", job.nzo_id, deletion_successful)

\* Lines 184-257, as a function of the counters and of what the calls return.
StepBResult(c0, deletion_successful, again, reset_ok) ==
    LET c == [c0 EXCEPT !.disk = @ + 1]
        job == JobToDelete(queue_items)
    IN  IF DiskLow(disk_space_free_gb)
        THEN IF DeletionDue(c.disk)
             THEN IF job # NoJob
                  THEN IF deletion_successful
                       THEN LET after == AfterDeletion(c, again, reset_ok)
                            IN  [c |-> after.c,
                                 acts |-> << DeleteCall(job, TRUE) >> \o after.acts]
                       ELSE [c |-> AfterFailedDeletion(c),
                             acts |-> << DeleteCall(job, FALSE) >>]
                  ELSE [c |-> [c EXCEPT !.restart = 0], acts |-> << >>]
             ELSE [c |-> c, acts |-> << >>]
        ELSE [c |-> [c0 EXCEPT !.disk = 0, !.restart = 0], acts |-> << >>]

\* The re-fetch of a cycle that makes none.
NoReFetch == [disk |-> ErrorSnapshot.disk, ok |-> FALSE]

\* reset_sabnzbd_queue() is called in a run whose step B ends with the restart.
ResetCalled(c, again) ==
    \E i \in 1..Len(StepBResult(c, TRUE, again, TRUE).acts) :
        StepBResult(c, TRUE, again, TRUE).acts[i].type = "ResetQueue"

StepB ==
    /\ pc = "B"
    /\ \E deletion_successful \in
              Outcomes(\/ StepBResult(Now, FALSE, NoReFetch, FALSE).acts # << >>
                       \/ StepBResult(twin.c, FALSE, NoReFetch, FALSE).acts # << >>) :
          \E again \in IF deletion_successful THEN ReFetched ELSE {NoReFetch} :
            \E reset_ok \in Outcomes(/\ deletion_successful
                                     /\ \/ ResetCalled(Now, again)
                                        \/ ResetCalled(twin.c, again)) :
              Step(StepBResult(Now, deletion_successful, again, reset_ok),
                   StepBResult(twin.c, deletion_successful, again, reset_ok))
    /\ pc' = "C"
    /\ UNCHANGED << config, snapshot, history >>

\* Lines 262-275, as a function of the counters.
StepCResult(c) ==
    LET cnt == IF HangDetected(overall_status, speed, is_post_processing_active)
               THEN c.hang + 1
               ELSE 0
    IN  IF RestartDue(cnt)
        THEN [c |-> AllZero, acts |-> << Act("RestartContainer", "C", 0, TRUE) >>]
        ELSE [c |-> [c EXCEPT !.hang = cnt], acts |-> << >>]

StepC ==
    /\ pc = "C"
    /\ Step(StepCResult(Now), StepCResult(twin.c))
    /\ pc' = "sleep"
    /\ prev' = NoPrev
    /\ UNCHANGED << config, snapshot, start, hangRun, errRun, runs >>

\* Line 277: the cycle is over; the next fetch overwrites the snapshot.
Sleep ==
    /\ pc = "sleep"
    /\ prev' = [resumeFailed |-> \E i \in Issued("Resume") : ~actions[i].ok,
                failedJob |-> IF \E i \in Issued("DeleteJob") : ~actions[i].ok
                              THEN Data(JobToDelete(queue_items))
                              ELSE NoJob,
                resolved |-> \E i \in Issued("ReFetch") : ~DiskLow(actions[i].arg),
                restartB |-> \E i \in Issued("RestartContainer") : actions[i].step = "B",
                restartC |-> \E i \in Issued("RestartContainer") : actions[i].step = "C"]
    /\ SetSnapshot(NoSnapshot)
    /\ actions' = << >>
    /\ twin' = [twin EXCEPT !.acts = << >>]
    /\ start' = Now
    /\ pc' = "fetch"
    /\ UNCHANGED << config, counters, hangRun, errRun, runs >>

Next == Fetch \/ StepA \/ StepB \/ StepC \/ Sleep

Spec == Init /\ [][Next]_vars

\* Line 159 is `while True`, every request in the body has a timeout (lines
\* 78, 109, 126, 143) and every sleep returns: a cycle that can go on does.
FairSpec == Spec /\ WF_vars(Next)

\* Two runs side by side that start apart in post_processing_active_counter.
TwinSpec == TwinInit /\ [][Next]_vars

\* ================================================================ claims
EndOfCycle == pc = "sleep"
AfterA == pc \in {"B", "C"}
AfterB == pc = "C"

Restarts == Issued("RestartContainer")

\* C1: at the end of every cycle in which a RestartContainer was issued, by
\* step B or by step C, all five counters are 0.
C1_RestartLeavesCountersZero ==
    (EndOfCycle /\ Restarts # {}) => Now = AllZero

\* C2: over a cycle every counter ends at its start value plus one, or at 0.
C2_StepOrZero ==
    EndOfCycle =>
        /\ zero_speed_hang_counter \in {start.hang + 1, 0}
        /\ sabnzbd_paused_counter \in {start.paused + 1, 0}
        /\ post_processing_active_counter \in {start.pproc + 1, 0}
        /\ disk_full_counter \in {start.disk + 1, 0}
        /\ disk_full_restart_counter \in {start.restart + 1, 0}

\* C3: no RestartContainer is issued in a cycle whose snapshot has
\* post-processing active, by step B or by step C.
C3_NoRestartWhilePostProcessing ==
    (EndOfCycle /\ is_post_processing_active) => Restarts = {}

\* The candidate as C4 states it: eligible is any job neither Completed, Failed
\* nor post-processing; the target is the first of the largest effective size.
Eligible(items) ==
    { i \in 1..Len(items) :
        items[i].status \notin {"Completed", "Failed"} \cup POST_PROCESSING_STATES }

EffectiveSize(job) ==
    IF job.status = "Downloading"
    THEN parse_sab_size_string(JobGet(job.sizeleft, DefaultSize))
    ELSE parse_sab_size_string(JobGet(job.size, DefaultSize))

FirstLargest(items) ==
    CHOOSE i \in Eligible(items) :
        /\ \A j \in Eligible(items) : EffectiveSize(items[j]) <= EffectiveSize(items[i])
        /\ \A j \in Eligible(items) :
               EffectiveSize(items[j]) = EffectiveSize(items[i]) => i <= j

\* The deletion branch is entered: disk low, disk_full_counter at its threshold.
DeletionCycle ==
    DiskLow(disk_space_free_gb) /\ start.disk + 1 >= MAX_DISK_FULL_COUNT

\* C4: in a cycle with the disk low and diskFullCounter at maxDiskFullCount,
\* whenever the queue holds an eligible job a DeleteJob is attempted, for the
\* first eligible job of the largest effective size, sizes of 0.0 included.
C4_DeletesFirstLargest ==
    (AfterB /\ DeletionCycle /\ Eligible(queue_items) # {}) =>
        \E i \in Issued("DeleteJob") :
            actions[i].arg = queue_items[FirstLargest(queue_items)].nzo_id

\* C5: from all counters 0, with the disk never low, MAX_ZERO_COUNT cycles of
\* the hang snapshot issue no RestartContainer before the last one, exactly one
\* in the last one, and leave all five counters at 0.
C5_HangScenario ==
    EndOfCycle =>
        /\ hangRun \in 1..(MAX_ZERO_COUNT - 1) => Restarts = {}
        /\ hangRun = MAX_ZERO_COUNT => Cardinality(Restarts) = 1 /\ Now = AllZero

C5_Witness ==
    /\ EndOfCycle /\ MAX_ZERO_COUNT >= 2 /\ hangRun = MAX_ZERO_COUNT
    /\ Cardinality(Restarts) = 1

\* The hang of C6: a slot is active, nothing moves, not paused, no post-processing.
TrueHang ==
    /\ active_download_slots > 0 /\ speed = 0
    /\ overall_status # "Paused" /\ ~is_post_processing_active

\* C6: hangCounter is incremented only in a cycle whose snapshot is a true
\* hang; every other cycle ends with hangCounter reset to 0.
C6_HangCounterOnlyOnTrueHang ==
    (EndOfCycle /\ ~TrueHang) => zero_speed_hang_counter = 0

\* C7: a Resume that failed in the previous cycle is attempted again in this
\* cycle when the snapshot is again Paused without post-processing, whatever
\* steps B and C did in the previous cycle.
C7_ResumeRetried ==
    (AfterA /\ prev.resumeFailed
        /\ overall_status = "Paused" /\ ~is_post_processing_active)
    => Issued("Resume") # {}

\* C7 as amended: the retry is owed unless, after the failed Resume, step B
\* found the disk pressure resolved or a RestartContainer was issued.
C7_ResumeRetriedUnlessReset ==
    (AfterA /\ prev.resumeFailed
        /\ ~prev.resolved /\ ~prev.restartB /\ ~prev.restartC
        /\ overall_status = "Paused" /\ ~is_post_processing_active)
    => Issued("Resume") # {}

C7_Witness ==
    /\ AfterA /\ prev.resumeFailed
    /\ ~prev.resolved /\ ~prev.restartB /\ ~prev.restartC
    /\ overall_status = "Paused" /\ ~is_post_processing_active
    /\ Issued("Resume") # {}

\* Step B after a DeleteJob that failed: diskFullRestartCounter as it was,
\* diskFullCounter incremented and not reset.
FailedDeletionKeepsCounters ==
    (AfterB /\ \E i \in Issued("DeleteJob") : ~actions[i].ok) =>
        /\ disk_full_restart_counter = start.restart
        /\ disk_full_counter = start.disk + 1

FailedJobStillQueued ==
    \E i \in 1..Len(queue_items) : Data(queue_items[i]) = prev.failedJob

C9_FailedResetKeepsCounters ==
    (AfterB /\ \E i \in Issued("ResetQueue") : ~actions[i].ok) =>
        /\ disk_full_counter = start.disk + 1
        /\ disk_full_restart_counter = start.restart + 1

\* C10: from all counters 0, every cycle of a run of failed fetches issues no
\* action at all and ends with hangCounter and pausedCounter at 0.
C10_FetchFailuresDoNothing ==
    (EndOfCycle /\ errRun >= 1) =>
        /\ actions = << >>
        /\ zero_speed_hang_counter = 0
        /\ sabnzbd_paused_counter = 0

C10_Witness ==
    /\ EndOfCycle /\ errRun >= 3 /\ actions = << >>
    /\ disk_full_counter = 3

\* The snapshot of this cycle is the one a failed fetch returns.
FetchFailed ==
    /\ speed = ErrorSnapshot.speed /\ active_download_slots = ErrorSnapshot.slots
    /\ overall_status = ErrorSnapshot.status
    /\ is_post_processing_active = ErrorSnapshot.pp
    /\ disk_space_free_gb = ErrorSnapshot.disk /\ queue_items = ErrorSnapshot.items

Remediations ==
    Issued("DeleteJob") \cup Issued("ResetQueue") \cup Issued("RestartContainer")

\* C11: under an unbroken run of failed fetches diskFullCounter is incremented
\* in every cycle and a disk-pressure remediation (DeleteJob, ResetQueue or
\* RestartContainer) is eventually issued. The counter is compared with
\* MAX_DISK_FULL_COUNT only, so the remediation, if it ever comes, comes in
\* the first cycle of the run in which the counter has reached it.
C11_OutageRemediated ==
    (EndOfCycle /\ errRun >= 1) =>
        /\ disk_full_counter = start.disk + 1
        /\ errRun >= MAX_DISK_FULL_COUNT => Remediations # {}

\* C11 as amended: every cycle of a failed fetch increments diskFullCounter
\* and issues no remediation, however far the counter is past its threshold.
C11_OutageNeverRemediated ==
    (EndOfCycle /\ FetchFailed) =>
        /\ disk_full_counter = start.disk + 1
        /\ Remediations = {}

C11_Witness ==
    /\ EndOfCycle /\ FetchFailed /\ errRun > MAX_DISK_FULL_COUNT
    /\ disk_full_counter > MAX_DISK_FULL_COUNT /\ Remediations = {}

AllCompleted == \A i \in 1..Len(queue_items) : queue_items[i].status = "Completed"

\* C12: in every cycle of a run with the disk low and every job Completed, no
\* DeleteJob is issued and diskFullCounter ends one above where the previous
\* cycle left it.
C12_NoCandidateKeepsCounting ==
    (EndOfCycle /\ DiskLow(disk_space_free_gb) /\ AllCompleted) =>
        /\ Issued("DeleteJob") = {}
        /\ disk_full_counter = start.disk + 1

\* C12 as amended: the counter goes up by one unless step C restarts the
\* container in that cycle, which zeroes it.
C12_NoCandidateCountsUnlessRestart ==
    (EndOfCycle /\ DiskLow(disk_space_free_gb) /\ AllCompleted) =>
        /\ Issued("DeleteJob") = {}
        /\ Restarts = {} => disk_full_counter = start.disk + 1
        /\ Restarts # {} => disk_full_counter = 0

C12_Witness ==
    /\ EndOfCycle /\ DiskLow(disk_space_free_gb) /\ AllCompleted
    /\ Len(queue_items) >= 1 /\ Restarts = {}
    /\ disk_full_counter > MAX_DISK_FULL_COUNT

\* C13: a cycle whose snapshot is Paused with post-processing active issues no
\* Resume, however large the counters were when it began, and leaves
\* pausedCounter at 0 after step A.
C13_NoResumeWhilePostProcessing ==
    (overall_status = "Paused" /\ is_post_processing_active) =>
        /\ Issued("Resume") = {}
        /\ pc = "B" => sabnzbd_paused_counter = 0

C13_Witness ==
    /\ pc = "B" /\ overall_status = "Paused" /\ is_post_processing_active
    /\ start.paused >= MAX_PAUSED_COUNT_FOR_UNPAUSE
    /\ sabnzbd_paused_counter = 0 /\ Issued("Resume") = {}

ResumeDebounced ==
    Issued("Resume") # {} => runs.paused >= MAX_PAUSED_COUNT_FOR_UNPAUSE

DeleteDebounced ==
    Issued("DeleteJob") # {} => runs.low >= MAX_DISK_FULL_COUNT

HangRestarts == {i \in Restarts : actions[i].step = "C"}

HangRestartDebounced ==
    HangRestarts # {} => runs.hang >= MAX_ZERO_COUNT

\* C14: no action fires before its debounce count of consecutive qualifying
\* cycles: a Resume only in at least the maxPausedCount-th consecutive cycle
\* Paused without post-processing, a DeleteJob only in at least the
\* maxDiskFullCount-th consecutive cycle with the disk below the threshold, a
\* hang restart only in at least the maxZeroCount-th consecutive cycle of a
\* true hang.
C14_Debounced ==
    ResumeDebounced /\ DeleteDebounced /\ HangRestartDebounced

EscalationRestarts == {i \in Restarts : actions[i].step = "B"}

\* Some deletion that went through, then a re-fetch that still found the disk
\* low, then a queue reset, all before position i of this cycle's actions.
LadderBefore(i) ==
    \E d, f, q \in 1..(i - 1) :
        /\ d < f /\ f < q
        /\ actions[d].type = "DeleteJob" /\ actions[d].ok
        /\ actions[f].type = "ReFetch" /\ DiskLow(actions[f].arg)
        /\ actions[q].type = "ResetQueue"

\* C15: within a cycle every ResetQueue is followed by a RestartContainer;
\* every RestartContainer of step B is preceded, in this order, by a DeleteJob
\* that succeeded, a re-fetch that found the disk below the threshold and a
\* ResetQueue; no ResetQueue or step-B restart occurs in a cycle without a
\* successful DeleteJob.
C15_LadderOrdered ==
    /\ \A q \in Issued("ResetQueue") :
          \E i \in Restarts : i > q
    /\ \A i \in EscalationRestarts : LadderBefore(i)
    /\ (Issued("ResetQueue") \cup EscalationRestarts) # {} =>
          \E d \in Issued("DeleteJob") : actions[d].ok

C15_Witness ==
    /\ AfterB /\ EscalationRestarts # {}
    /\ \E q \in Issued("ResetQueue") : ~actions[q].ok

AllThreeFire ==
    /\ \E i \in Issued("Resume") : actions[i].step = "A"
    /\ \E i \in Issued("DeleteJob") : actions[i].step = "B"
    /\ HangRestarts # {}

C16_WitnessDeleteAndHangRestart ==
    /\ EndOfCycle /\ Issued("DeleteJob") # {} /\ HangRestarts # {}

SameButPostProcessing(c, d) == [c EXCEPT !.pproc = 0] = [d EXCEPT !.pproc = 0]

\* C17: postProcessingCounter is diagnostic only: two runs fed the same
\* snapshots and the same outcomes, which start apart only in
\* postProcessingCounter, issue the same actions in every cycle and end every
\* cycle with equal hang, paused, disk-full and disk-full-restart counters.
C17_PostProcessingCounterDiagnostic ==
    /\ twin.acts = actions
    /\ EndOfCycle => SameButPostProcessing(twin.c, Now)

C17_Witness ==
    /\ EndOfCycle /\ twin.c.pproc # post_processing_active_counter
    /\ twin.acts = actions /\ Issued("DeleteJob") # {}
    /\ disk_full_counter > 0 /\ twin.c.disk = disk_full_counter

FailedReFetches == {f \in Issued("ReFetch") : ~actions[f].ok}

\* C18: the re-check after a successful DeleteJob takes a failed fetch for a
\* full disk: when the re-fetch returns the Error sentinel, the escalation
\* counter reaches restartOnDiskFullFailCount = 1 at once, and a ResetQueue
\* and a RestartContainer follow in that same cycle.
C18_FailedReFetchRestarts ==
    \A f \in FailedReFetches :
        /\ actions[f].arg = ErrorSnapshot.disk
        /\ f >= 2 /\ actions[f - 1].type = "DeleteJob" /\ actions[f - 1].ok
        /\ Len(actions) >= f + 2
        /\ actions[f + 1].type = "ResetQueue"
        /\ actions[f + 2] = Act("RestartContainer", "B", 0, TRUE)
        /\ AfterB => Now = AllZero

C18_Witness ==
    /\ AfterB /\ FailedReFetches # {} /\ EscalationRestarts # {}
    /\ disk_full_restart_counter = 0

\* C19: hangCounter is below maxZeroCount at the end of every cycle, for every
\* maxZeroCount >= 1; pausedCounter and diskFullCounter are not held below
\* their thresholds.
C19_HangCounterBelowThreshold ==
    EndOfCycle => zero_speed_hang_counter < MAX_ZERO_COUNT

C19_Witness ==
    /\ EndOfCycle /\ MAX_ZERO_COUNT >= 2
    /\ zero_speed_hang_counter = MAX_ZERO_COUNT - 1
    /\ disk_full_counter > MAX_DISK_FULL_COUNT

C19_WitnessPausedPastThreshold ==
    /\ EndOfCycle /\ sabnzbd_paused_counter > MAX_PAUSED_COUNT_FOR_UNPAUSE

\* C20: with maxZeroCount >= 2 a cycle issues at most one RestartContainer:
\* after the restart of step B the hang counter is 0, and step C takes it to
\* 1 at most.
C20_OneRestartPerCycle ==
    MAX_ZERO_COUNT >= 2 => Cardinality(Restarts) <= 1

C20_Witness ==
    /\ EndOfCycle /\ MAX_ZERO_COUNT >= 2 /\ EscalationRestarts # {}
    /\ start.hang = MAX_ZERO_COUNT - 1
    /\ HangDetected(overall_status, speed, is_post_processing_active)
    /\ zero_speed_hang_counter = 1 /\ Cardinality(Restarts) = 1

C20_TwoRestartsWithoutDebounce ==
    /\ EndOfCycle /\ MAX_ZERO_COUNT = 1 /\ Cardinality(Restarts) = 2

====
